---- MODULE Spec2Model ----
(***************************************************************************)
(* Model of the OpenCode source loader (apps/opencode/src/data-loader.ts   *)
(* with its SQLite adapter) and of the Claude pricing resolver             *)
(* (PricingFetcher.getModelPricing).                                       *)
(*                                                                         *)
(* Numbers are integers: token counts as they are, costs and rates in an   *)
(* integer unit.  A text (the `data` column, the environment variable) is  *)
(* represented by what the code can observe of it: an environment value is *)
(* a sequence of tokens (" " is a whitespace character, "/" the root       *)
(* separator, anything else a path component), a `data` text is its syntax *)
(* class together with the JSON document it denotes.                       *)
(***************************************************************************)
EXTENDS Integers, Sequences, FiniteSets, TLC

VARIABLES
    env,          \* process.env[OPENCODE_DATA_DIR]: [set, value]
    fs,           \* file system: path -> "none" | "dir" | "file" | "noaccess"
    dbHealth,     \* state of the bytes of an opencode.db file
    op,           \* the exported function being executed
    pc,           \* position of the call
    dbPath,       \* what getOpenCodeDbPath() returned to openDatabase
    handle,       \* underlying database object: "none" | "open" | "closed"
    opened,       \* number of database objects constructed during the call
    closes,       \* number of close() calls made during the call
    table,        \* content of the queried table, read by the query
    rows,         \* rows returned by .all()
    idx,          \* position of the for-of loop over rows
    entries,      \* local `entries` of loadOpenCodeMessages
    result,       \* array returned by loadOpenCodeMessages
    sessionMap,   \* map returned by loadOpenCodeSessions
    error,        \* error thrown to the caller, "none" if none
    offline,      \* PricingFetcher constructor flag
    catalog,      \* acquired pricing catalog: [ok, names]; ok is FALSE when the fetch failed
    modelName,    \* argument of getModelPricing
    ppc,          \* position of the getModelPricing call
    lookups,      \* names handed to super.getModelPricing, in order
    aliasGets,    \* number of CLAUDE_MODEL_ALIASES.get calls
    priced        \* result of getModelPricing

loaderVars == <<env, fs, dbHealth, op, pc, dbPath, handle, opened, closes,
                table, rows, idx, entries, result, sessionMap, error>>
pricingVars == <<offline, catalog, modelName, ppc, lookups, aliasGets, priced>>
vars == <<env, fs, dbHealth, op, pc, dbPath, handle, opened, closes,
          table, rows, idx, entries, result, sessionMap, error,
          offline, catalog, modelName, ppc, lookups, aliasGets, priced>>

(***************************************************************************)
(* Bounds                                                                  *)
(***************************************************************************)
MaxRows == 2

(***************************************************************************)
(* JSON values.  A scalar is tagged with its JavaScript type; a document   *)
(* maps each path the schema reads to the scalar found there ("absent"     *)
(* when the key is missing, "obj" when an object is there).                *)
(***************************************************************************)
Absent == [t |-> "absent", n |-> 0, s |-> ""]
Null == [t |-> "null", n |-> 0, s |-> ""]
Obj == [t |-> "obj", n |-> 0, s |-> ""]
Num(n) == [t |-> "num", n |-> n, s |-> ""]
Str(s) == [t |-> "str", n |-> 0, s |-> s]

Paths == {"role", "modelID", "providerID", "time", "time.created",
          "time.completed", "cost", "tokens", "tokens.input", "tokens.output",
          "tokens.reasoning", "tokens.total", "tokens.cache",
          "tokens.cache.read", "tokens.cache.write"}

(***************************************************************************)
(* Path handling (node:path) and the constants of data-loader.ts           *)
(***************************************************************************)
DEFAULT_OPENCODE_PATH == <<".local", "share", "opencode">>
OPENCODE_DB_FILENAME == "opencode.db"
USER_HOME_DIR == <<"/", "home">>
Cwd == <<"/">>
NoPath == <<>>

RECURSIVE TrimStart(_)
TrimStart(s) == IF s # <<>> /\ Head(s) = " " THEN TrimStart(Tail(s)) ELSE s

RECURSIVE TrimEnd(_)
TrimEnd(s) ==
    IF s # <<>> /\ s[Len(s)] = " " THEN TrimEnd(SubSeq(s, 1, Len(s) - 1)) ELSE s

\* String.prototype.trim
Trim(s) == TrimEnd(TrimStart(s))

\* the components of a normalised path: "." and repeated separators are
\* dropped, ".." removes the component before it (nothing at the root, and it
\* is kept at the start of a relative path)
RECURSIVE NormalizeParts(_, _, _)
NormalizeParts(done, rest, absolute) ==
    IF rest = <<>> THEN done
    ELSE IF Head(rest) \in {".", "/"}
         THEN NormalizeParts(done, Tail(rest), absolute)
    ELSE IF Head(rest) = ".."
         THEN IF done # <<>> /\ done[Len(done)] # ".."
              THEN NormalizeParts(SubSeq(done, 1, Len(done) - 1), Tail(rest), absolute)
              ELSE IF absolute
                   THEN NormalizeParts(done, Tail(rest), absolute)
                   ELSE NormalizeParts(Append(done, ".."), Tail(rest), absolute)
    ELSE NormalizeParts(Append(done, Head(rest)), Tail(rest), absolute)

\* path.normalize(p)
PathNormalize(p) ==
    IF p # <<>> /\ Head(p) = "/"
    THEN <<"/">> \o NormalizeParts(<<>>, Tail(p), TRUE)
    ELSE IF NormalizeParts(<<>>, p, FALSE) = <<>>
         THEN <<".">>
         ELSE NormalizeParts(<<>>, p, FALSE)

\* path.resolve(p): a relative path is taken from the working directory; the
\* result is absolute and normalised
PathResolve(p) ==
    IF p # <<>> /\ Head(p) = "/" THEN PathNormalize(p) ELSE PathNormalize(Cwd \o p)

\* path.join(a, b): the segments joined, then normalised
PathJoin(a, b) == PathNormalize(a \o b)

\* p is a proper prefix of q
IsBelow(q, p) == Len(p) < Len(q) /\ SubSeq(q, 1, Len(p)) = p

\* the entry at p: what the file system lists there; a path it does not list
\* is a searchable directory when it is the root or an entry exists below
\* it, and is missing otherwise
Entry(p) ==
    IF p \in DOMAIN fs THEN fs[p]
    ELSE IF p = <<"/">> \/ \E q \in DOMAIN fs : IsBelow(q, p) /\ fs[q] # "none"
         THEN "dir"
         ELSE "none"

\* statSync(p): what is found at p ("dir", "file"), or the error code.  The
\* components before the last are traversed from the root: a missing one
\* gives ENOENT, a regular file ENOTDIR, a directory without search
\* permission EACCES.
RECURSIVE StatFrom(_, _)
StatFrom(p, k) ==
    IF k >= Len(p)
    THEN IF Entry(p) = "none" THEN "ENOENT"
         ELSE IF Entry(p) = "file" THEN "file"
         ELSE "dir"
    ELSE IF Entry(SubSeq(p, 1, k)) = "dir" THEN StatFrom(p, k + 1)
    ELSE IF Entry(SubSeq(p, 1, k)) = "none" THEN "ENOENT"
    ELSE IF Entry(SubSeq(p, 1, k)) = "file" THEN "ENOTDIR"
    ELSE "EACCES"

Stat(p) == StatFrom(p, 1)

StatErrors == {"ENOTDIR", "EACCES"}

\* path-type: false when stat fails with ENOENT, any other error is rethrown
isDirectorySync(p) ==
    [threw |-> Stat(p) \in StatErrors,
     error |-> IF Stat(p) \in StatErrors THEN Stat(p) ELSE "none",
     value |-> Stat(p) = "dir"]

isFileSync(p) ==
    [threw |-> Stat(p) \in StatErrors,
     error |-> IF Stat(p) \in StatErrors THEN Stat(p) ELSE "none",
     value |-> Stat(p) = "file"]

\* getOpenCodePath with the fall back to the default directory left out
getOpenCodePathNoDefault ==
    IF env.set /\ Trim(env.value) # <<>>
          /\ isDirectorySync(PathResolve(env.value)).threw
    THEN [threw |-> TRUE, error |-> isDirectorySync(PathResolve(env.value)).error,
          path |-> NoPath]
    ELSE IF env.set /\ Trim(env.value) # <<>>
               /\ isDirectorySync(PathResolve(env.value)).value
         THEN [threw |-> FALSE, error |-> "none", path |-> PathResolve(env.value)]
         ELSE [threw |-> FALSE, error |-> "none", path |-> NoPath]

\* getOpenCodePath(): [threw, error, path], path is NoPath for null
getOpenCodePath ==
    IF env.set /\ Trim(env.value) # <<>>
          /\ isDirectorySync(PathResolve(env.value)).threw
    THEN [threw |-> TRUE, error |-> isDirectorySync(PathResolve(env.value)).error,
          path |-> NoPath]
    ELSE IF env.set /\ Trim(env.value) # <<>>
               /\ isDirectorySync(PathResolve(env.value)).value
         THEN [threw |-> FALSE, error |-> "none", path |-> PathResolve(env.value)]
    ELSE IF isDirectorySync(PathJoin(USER_HOME_DIR, DEFAULT_OPENCODE_PATH)).threw
         THEN [threw |-> TRUE,
               error |-> isDirectorySync(PathJoin(USER_HOME_DIR,
                                                  DEFAULT_OPENCODE_PATH)).error,
               path |-> NoPath]
    ELSE IF isDirectorySync(PathJoin(USER_HOME_DIR, DEFAULT_OPENCODE_PATH)).value
         THEN [threw |-> FALSE, error |-> "none",
               path |-> PathJoin(USER_HOME_DIR, DEFAULT_OPENCODE_PATH)]
         ELSE [threw |-> FALSE, error |-> "none", path |-> NoPath]

\* getOpenCodeDbPath(): [threw, error, path], path is NoPath for null
getOpenCodeDbPath ==
    IF getOpenCodePath.threw \/ getOpenCodePath.path = NoPath
    THEN getOpenCodePath
    ELSE IF isFileSync(PathJoin(getOpenCodePath.path, <<OPENCODE_DB_FILENAME>>)).threw
         THEN [threw |-> TRUE,
               error |-> isFileSync(PathJoin(getOpenCodePath.path,
                                             <<OPENCODE_DB_FILENAME>>)).error,
               path |-> NoPath]
    ELSE IF ~isFileSync(PathJoin(getOpenCodePath.path, <<OPENCODE_DB_FILENAME>>)).value
         THEN [threw |-> FALSE, error |-> "none", path |-> NoPath]
         ELSE [threw |-> FALSE, error |-> "none",
               path |-> PathJoin(getOpenCodePath.path, <<OPENCODE_DB_FILENAME>>)]

(***************************************************************************)
(* _sqlite.ts: the runtime-agnostic adapter.  The outcome of an open is    *)
(* [created, error]: whether the underlying database object was            *)
(* constructed, and the error thrown ("none" when the wrapper is returned).*)
(* The constructor throws when the file cannot be opened; the first        *)
(* statement executed (the PRAGMA) throws when the file is not a database. *)
(***************************************************************************)
openBunSqlite(filePath) ==
    IF Stat(filePath) # "file" \/ dbHealth = "unreadable"
    THEN [created |-> FALSE, error |-> "SqliteOpenError"]
    ELSE IF dbHealth = "corrupt"
         THEN [created |-> TRUE, error |-> "SqlitePragmaError"]
         ELSE [created |-> TRUE, error |-> "none"]

openNodeSqlite(filePath) ==
    IF Stat(filePath) # "file" \/ dbHealth = "unreadable"
    THEN [created |-> FALSE, error |-> "SqliteOpenError"]
    ELSE IF dbHealth = "corrupt"
         THEN [created |-> TRUE, error |-> "SqlitePragmaError"]
         ELSE [created |-> TRUE, error |-> "none"]

openSqlite(filePath, runtime) ==
    IF runtime = "bun" THEN openBunSqlite(filePath) ELSE openNodeSqlite(filePath)

\* openDatabase turning a failed open into "no database"
openDatabaseSwallow(runtime) ==
    IF getOpenCodeDbPath.threw
    THEN [db |-> FALSE, created |-> FALSE, error |-> getOpenCodeDbPath.error]
    ELSE IF getOpenCodeDbPath.path = NoPath
         THEN [db |-> FALSE, created |-> FALSE, error |-> "none"]
         ELSE LET r == openSqlite(getOpenCodeDbPath.path, runtime)
              IN  [db |-> r.error = "none", created |-> r.created, error |-> "none"]

\* openDatabase(): db is FALSE for null; an error of getOpenCodeDbPath or of
\* openSqlite is thrown on
openDatabase(runtime) ==
    IF getOpenCodeDbPath.threw
    THEN [db |-> FALSE, created |-> FALSE, error |-> getOpenCodeDbPath.error]
    ELSE IF getOpenCodeDbPath.path = NoPath
         THEN [db |-> FALSE, created |-> FALSE, error |-> "none"]
         ELSE LET r == openSqlite(getOpenCodeDbPath.path, runtime)
              IN  [db |-> r.error = "none", created |-> r.created, error |-> r.error]

(***************************************************************************)
(* The valibot schemas                                                     *)
(***************************************************************************)
IsNumber(x) == x.t = "num"
IsString(x) == x.t = "str"
IsObject(x) == x.t = "obj"
IsOptionalNumber(x) == x.t = "absent" \/ IsNumber(x)

assistantTokensSchema(d) ==
    /\ IsObject(d["tokens"])
    /\ IsNumber(d["tokens.input"])
    /\ IsNumber(d["tokens.output"])
    /\ IsOptionalNumber(d["tokens.reasoning"])
    /\ IsOptionalNumber(d["tokens.total"])
    /\ IsObject(d["tokens.cache"])
    /\ IsNumber(d["tokens.cache.read"])
    /\ IsNumber(d["tokens.cache.write"])

assistantMessageDataSchema(d) ==
    /\ d["role"] = Str("assistant")
    /\ IsString(d["modelID"])
    /\ IsString(d["providerID"])
    /\ IsObject(d["time"])
    /\ IsNumber(d["time.created"])
    /\ IsOptionalNumber(d["time.completed"])
    /\ IsNumber(d["cost"])
    /\ assistantTokensSchema(d)

\* v.safeParse(assistantMessageDataSchema, value): the output carries the
\* default of tokens.reasoning
safeParse(d) ==
    IF assistantMessageDataSchema(d)
    THEN [success |-> TRUE,
          output |-> [d EXCEPT !["tokens.reasoning"] =
                         IF d["tokens.reasoning"].t = "absent" THEN Num(0)
                         ELSE d["tokens.reasoning"]]]
    ELSE [success |-> FALSE, output |-> d]

\* JSON.parse(text): a SyntaxError unless the text is strict JSON
JSONparse(text) ==
    IF text.syntax = "strict"
    THEN [threw |-> FALSE, value |-> text.doc]
    ELSE [threw |-> TRUE, value |-> text.doc]

\* new Date(ms)
Date(ms) == [time |-> ms]

\* convertMessageToUsageEntry with `>=` for `>`
convertMessageToUsageEntryGe(row, data) ==
    [timestamp |-> Date(data["time.created"].n),
     sessionID |-> row.session_id,
     usage |-> [inputTokens |-> data["tokens.input"].n,
                outputTokens |-> data["tokens.output"].n,
                cacheCreationInputTokens |-> data["tokens.cache.write"].n,
                cacheReadInputTokens |-> data["tokens.cache.read"].n],
     model |-> data["modelID"].s,
     costUSD |-> IF data["cost"].n >= 0 THEN data["cost"] ELSE Null]

convertMessageToUsageEntry(row, data) ==
    [timestamp |-> Date(data["time.created"].n),
     sessionID |-> row.session_id,
     usage |-> [inputTokens |-> data["tokens.input"].n,
                outputTokens |-> data["tokens.output"].n,
                cacheCreationInputTokens |-> data["tokens.cache.write"].n,
                cacheReadInputTokens |-> data["tokens.cache.read"].n],
     model |-> data["modelID"].s,
     costUSD |-> IF data["cost"].n > 0 THEN data["cost"] ELSE Null]

\* the zero-token test with `||` for `&&`
zeroTokensEither(data) ==
    data["tokens.input"].n = 0 \/ data["tokens.output"].n = 0

\* data.tokens.input === 0 && data.tokens.output === 0
zeroTokens(data) ==
    data["tokens.input"].n = 0 /\ data["tokens.output"].n = 0

\* the body of the for-of loop of loadOpenCodeMessages on one row:
\* "throw" (JSON.parse), "skip" (continue) or "push"
loopBody(row) ==
    LET j == JSONparse(row.data)
        parsed == safeParse(j.value)
    IN  IF j.threw THEN [act |-> "throw", data |-> j.value]
        ELSE IF ~parsed.success THEN [act |-> "skip", data |-> parsed.output]
        ELSE IF zeroTokens(parsed.output) THEN [act |-> "skip", data |-> parsed.output]
        ELSE [act |-> "push", data |-> parsed.output]

(***************************************************************************)
(* The two queries.  json_extract raises on a text that is not well-formed *)
(* for SQLite (which also reads JSON5); any statement can fail for a       *)
(* reason outside the rows (missing table, I/O).                           *)
(***************************************************************************)
IsAssistantRow(row) == row.data.doc["role"] = Str("assistant")

messageQuery(t, ioError) ==
    IF ioError \/ \E i \in 1..Len(t) : t[i].data.syntax = "garbage"
    THEN [threw |-> TRUE, rows |-> <<>>]
    ELSE [threw |-> FALSE, rows |-> SelectSeq(t, IsAssistantRow)]

sessionQuery(t, ioError) ==
    IF ioError
    THEN [threw |-> TRUE, rows |-> <<>>]
    ELSE [threw |-> FALSE, rows |-> t]

\* the metadata stored for one session row
sessionMetadata(row) ==
    [id |-> row.id,
     parentID |-> row.parent_id,
     title |-> IF row.title # "" THEN row.title ELSE row.id,
     projectID |-> row.project_id,
     directory |-> row.directory]

\* Map.prototype.set(row.id, ...)
MapSet(m, row) == {x \in m : x.id # row.id} \cup {sessionMetadata(row)}

RECURSIVE buildSessionMap(_, _)
buildSessionMap(m, rs) ==
    IF rs = <<>> THEN m ELSE buildSessionMap(MapSet(m, Head(rs)), Tail(rs))

(***************************************************************************)
(* Inputs: environment values, file systems, table contents                *)
(***************************************************************************)
CustomDir == <<"/", "custom">>
DefaultDir == PathJoin(USER_HOME_DIR, DEFAULT_OPENCODE_PATH)
DbOf(dir) == PathJoin(dir, <<OPENCODE_DB_FILENAME>>)

EnvValues ==
    {[set |-> FALSE, value |-> <<>>],
     [set |-> TRUE, value |-> <<>>],
     [set |-> TRUE, value |-> <<" ", " ">>],
     [set |-> TRUE, value |-> <<"/", "custom">>],
     [set |-> TRUE, value |-> <<"custom">>],
     [set |-> TRUE, value |-> <<"..", "custom", ".">>],
     [set |-> TRUE, value |-> <<"/", "custom", "..", "missing">>],
     [set |-> TRUE, value |-> <<"/", "custom", "x">>],
     [set |-> TRUE, value |-> <<"/", "home">>],
     [set |-> TRUE, value |-> <<"/", "home", ".local", "share">>]}

HomeLocal == PathJoin(USER_HOME_DIR, <<".local">>)

\* "noaccess" is a directory without search permission
FsKinds == {"none", "dir", "file", "noaccess"}

FsPaths == {CustomDir, DbOf(CustomDir), HomeLocal, DefaultDir, DbOf(DefaultDir)}

\* an entry exists only inside a directory
FileSystems ==
    {f \in [FsPaths -> FsKinds] :
        /\ f[HomeLocal] \in {"dir", "file"}
        /\ f[HomeLocal] = "file" => f[DefaultDir] = "none"
        /\ f[DbOf(CustomDir)] # "noaccess"
        /\ f[DbOf(DefaultDir)] # "noaccess"
        /\ f[CustomDir] \notin {"dir", "noaccess"} => f[DbOf(CustomDir)] = "none"
        /\ f[DefaultDir] \notin {"dir", "noaccess"} => f[DbOf(DefaultDir)] = "none"}

Doc(role, cost, tin, tout, cread, cwrite) ==
    [p \in Paths |->
        CASE p = "role" -> Str(role)
          [] p = "modelID" -> Str("anthropic/claude-sonnet-4-5")
          [] p = "providerID" -> Str("anthropic")
          [] p = "time.created" -> Num(1700)
          [] p = "time.completed" -> Num(1710)
          [] p = "cost" -> Num(cost)
          [] p = "tokens.input" -> Num(tin)
          [] p = "tokens.output" -> Num(tout)
          [] p = "tokens.reasoning" -> Num(0)
          [] p = "tokens.total" -> Absent
          [] p = "tokens.cache.read" -> Num(cread)
          [] p = "tokens.cache.write" -> Num(cwrite)
          [] OTHER -> Obj]

\* a user turn: { role: 'user', time: { created } }
UserDoc ==
    [p \in Paths |->
        CASE p = "role" -> Str("user")
          [] p = "time" -> Obj
          [] p = "time.created" -> Num(1690)
          [] OTHER -> Absent]

MessageRowOf(id, session, syntax, doc) ==
    [id |-> id, session_id |-> session, time_created |-> doc["time.created"].n,
     data |-> [syntax |-> syntax, doc |-> doc]]

MessageRows ==
    {MessageRowOf("msg_paid", "ses_1", "strict", Doc("assistant", 5, 100, 200, 50, 25)),
     MessageRowOf("msg_free", "ses_2", "strict",
        [Doc("assistant", 0, 50, 0, 0, 0) EXCEPT !["time.completed"] = Absent,
                                                  !["tokens.reasoning"] = Absent]),
     MessageRowOf("msg_idle", "ses_1", "strict", Doc("assistant", 5, 0, 0, 7, 3)),
     MessageRowOf("msg_neg", "ses_2", "strict", Doc("assistant", -1, -5, 10, -2, 0)),
     MessageRowOf("msg_nomodel", "ses_1", "strict",
        [Doc("assistant", 5, 100, 200, 50, 25) EXCEPT !["modelID"] = Absent]),
     MessageRowOf("msg_strcost", "ses_1", "strict",
        [Doc("assistant", 5, 100, 200, 50, 25) EXCEPT !["cost"] = Str("0.05")]),
     MessageRowOf("msg_nullcache", "ses_2", "strict",
        [Doc("assistant", 5, 100, 200, 50, 25) EXCEPT !["tokens.cache"] = Null,
            !["tokens.cache.read"] = Absent, !["tokens.cache.write"] = Absent]),
     MessageRowOf("msg_user", "ses_1", "strict", UserDoc),
     MessageRowOf("msg_json5", "ses_1", "json5", Doc("assistant", 5, 100, 200, 50, 25)),
     MessageRowOf("msg_garbage", "ses_1", "garbage", UserDoc)}

SessionRows ==
    {[id |-> "ses_1", parent_id |-> Null, title |-> "Fix build",
      project_id |-> "prj", directory |-> "/work"],
     [id |-> "ses_2", parent_id |-> Str("ses_1"), title |-> "",
      project_id |-> "prj", directory |-> "/work"],
     [id |-> "ses_2", parent_id |-> Null, title |-> "Resumed",
      project_id |-> "prj", directory |-> "/work"]}

SeqsUpTo(S, n) == UNION {[1..k -> S] : k \in 0..n}

MessageTables == SeqsUpTo(MessageRows, MaxRows)
SessionTables == SeqsUpTo(SessionRows, MaxRows)

Runtimes == {"bun", "node"}

(***************************************************************************)
(* The loader as a state machine                                           *)
(***************************************************************************)
PricingIdle ==
    /\ offline = TRUE
    /\ catalog = [ok |-> TRUE, names |-> {}]
    /\ modelName = ""
    /\ ppc = "idle"
    /\ lookups = <<>>
    /\ aliasGets = 0
    /\ priced = [failure |-> FALSE, error |-> "none",
                 value |-> [null |-> TRUE, model |-> "", input_cost_per_token |-> 0,
                            output_cost_per_token |-> 0]]

LoaderStart ==
    /\ op = "none"
    /\ pc = "idle"
    /\ dbPath = NoPath
    /\ handle = "none"
    /\ opened = 0
    /\ closes = 0
    /\ table = <<>>
    /\ rows = <<>>
    /\ idx = 0
    /\ entries = <<>>
    /\ result = <<>>
    /\ sessionMap = {}
    /\ error = "none"

Init ==
    /\ env \in EnvValues
    /\ fs \in FileSystems
    /\ dbHealth \in {"ok", "corrupt", "unreadable"}
    /\ LoaderStart
    /\ PricingIdle

\* the caller invokes loadOpenCodeMessages()
CallMessages ==
    /\ pc = "idle"
    /\ op' = "messages"
    /\ pc' = "openDatabase"
    /\ UNCHANGED <<env, fs, dbHealth, dbPath, handle, opened, closes, table, rows,
                   idx, entries, result, sessionMap, error>>
    /\ UNCHANGED pricingVars

\* the caller invokes loadOpenCodeSessions()
CallSessions ==
    /\ pc = "idle"
    /\ op' = "sessions"
    /\ pc' = "openDatabase"
    /\ UNCHANGED <<env, fs, dbHealth, dbPath, handle, opened, closes, table, rows,
                   idx, entries, result, sessionMap, error>>
    /\ UNCHANGED pricingVars

\* const db = openDatabase(); if (db == null) return [] / new Map()
OpenDatabase ==
    /\ pc = "openDatabase"
    /\ \E runtime \in Runtimes :
         LET r == openDatabase(runtime)
         IN  /\ dbPath' = getOpenCodeDbPath.path
             /\ opened' = IF r.created THEN opened + 1 ELSE opened
             /\ handle' = IF r.created THEN "open" ELSE handle
             /\ error' = r.error
             /\ pc' = IF r.error # "none" THEN "thrown"
                      ELSE IF ~r.db THEN "returned"
                      ELSE "query"
    /\ result' = <<>>
    /\ sessionMap' = {}
    /\ UNCHANGED <<env, fs, dbHealth, op, closes, table, rows, idx, entries>>
    /\ UNCHANGED pricingVars

\* db.prepare(...).all() in loadOpenCodeMessages; a throw runs the finally
QueryMessages ==
    /\ pc = "query"
    /\ op = "messages"
    /\ \E t \in MessageTables, ioError \in BOOLEAN :
         LET q == messageQuery(t, ioError)
         IN  /\ table' = t
             /\ rows' = q.rows
             /\ IF q.threw
                THEN /\ handle' = "closed"
                     /\ closes' = closes + 1
                     /\ error' = "SqlQueryError"
                     /\ pc' = "thrown"
                     /\ idx' = idx
                ELSE /\ pc' = "loop"
                     /\ idx' = 1
                     /\ UNCHANGED <<handle, closes, error>>
    /\ entries' = <<>>
    /\ UNCHANGED <<env, fs, dbHealth, op, dbPath, opened, result, sessionMap>>
    /\ UNCHANGED pricingVars

\* one iteration of the for-of loop; a throw runs the finally
ProcessRow ==
    /\ pc = "loop"
    /\ idx <= Len(rows)
    /\ LET b == loopBody(rows[idx])
       IN  IF b.act = "throw"
           THEN /\ handle' = "closed"
                /\ closes' = closes + 1
                /\ error' = "SyntaxError"
                /\ pc' = "thrown"
                /\ UNCHANGED <<idx, entries>>
           ELSE /\ idx' = idx + 1
                /\ entries' = IF b.act = "push"
                              THEN Append(entries,
                                          convertMessageToUsageEntry(rows[idx], b.data))
                              ELSE entries
                /\ UNCHANGED <<handle, closes, error, pc>>
    /\ UNCHANGED <<env, fs, dbHealth, op, dbPath, opened, table, rows, result,
                   sessionMap>>
    /\ UNCHANGED pricingVars

\* return entries; the finally closes the database
ReturnEntries ==
    /\ pc = "loop"
    /\ idx > Len(rows)
    /\ result' = entries
    /\ handle' = "closed"
    /\ closes' = closes + 1
    /\ pc' = "returned"
    /\ UNCHANGED <<env, fs, dbHealth, op, dbPath, opened, table, rows, idx, entries,
                   sessionMap, error>>
    /\ UNCHANGED pricingVars

\* the try block of loadOpenCodeSessions with its finally
QuerySessions ==
    /\ pc = "query"
    /\ op = "sessions"
    /\ \E t \in SessionTables, ioError \in BOOLEAN :
         LET q == sessionQuery(t, ioError)
         IN  /\ table' = t
             /\ rows' = q.rows
             /\ IF q.threw
                THEN /\ error' = "SqlQueryError"
                     /\ pc' = "thrown"
                     /\ sessionMap' = sessionMap
                ELSE /\ sessionMap' = buildSessionMap({}, q.rows)
                     /\ pc' = "returned"
                     /\ error' = error
    /\ handle' = "closed"
    /\ closes' = closes + 1
    /\ UNCHANGED <<env, fs, dbHealth, op, dbPath, opened, idx, entries, result>>
    /\ UNCHANGED pricingVars

Next ==
    \/ CallMessages
    \/ CallSessions
    \/ OpenDatabase
    \/ QueryMessages
    \/ ProcessRow
    \/ ReturnEntries
    \/ QuerySessions

Spec == Init /\ [][Next]_vars

(***************************************************************************)
(* The pricing resolver.  PricingFetcher.getModelPricing is in the source; *)
(* the base class LiteLLMPricingFetcher and the embedded snapshot are not, *)
(* and follow the design document: the catalog is acquired once (from the  *)
(* embedded snapshot when offline, from the network otherwise, which can   *)
(* fail), and the base lookup is an exact match on the name.               *)
(***************************************************************************)
CLAUDE_MODEL_ALIASES ==
    ("anthropic/claude-opus-4.6" :> "claude-opus-4-6")
      @@ ("anthropic/claude-haiku-4.5" :> "claude-haiku-4-5")
      @@ ("anthropic/claude-sonnet-4.5" :> "claude-sonnet-4-5-20250929")
      @@ ("anthropic/claude-sonnet-4.6" :> "claude-sonnet-4-6")

AliasKeys == DOMAIN CLAUDE_MODEL_ALIASES
AliasTargets == {CLAUDE_MODEL_ALIASES[k] : k \in AliasKeys}

ModelNames == AliasKeys \cup AliasTargets \cup {"claude-sonnet-4-20250514", "gpt-5.1"}

\* the embedded snapshot holds the Claude models under their catalog names
PREFETCHED_CLAUDE_PRICING == AliasTargets \cup {"claude-sonnet-4-20250514"}

\* the rates a catalog holds for a name (integer unit); a catalog fetched
\* from the network may hold a record with no input rate
PricingOf(name) ==
    [null |-> FALSE, model |-> name,
     input_cost_per_token |->
        CASE name = "gpt-5.1" -> 0
          [] name \in {"claude-opus-4-6", "anthropic/claude-opus-4.6"} -> 15
          [] name \in {"claude-haiku-4-5", "anthropic/claude-haiku-4.5"} -> 1
          [] OTHER -> 3,
     output_cost_per_token |->
        CASE name = "gpt-5.1" -> 10
          [] name \in {"claude-opus-4-6", "anthropic/claude-opus-4.6"} -> 75
          [] name \in {"claude-haiku-4-5", "anthropic/claude-haiku-4.5"} -> 5
          [] OTHER -> 15]

NoPricing ==
    [null |-> TRUE, model |-> "", input_cost_per_token |-> 0,
     output_cost_per_token |-> 0]

Success(v) == [failure |-> FALSE, error |-> "none", value |-> v]
Failure(e) == [failure |-> TRUE, error |-> e, value |-> NoPricing]

\* what the catalog acquisition can yield
Catalogs(off) ==
    IF off
    THEN {[ok |-> TRUE, names |-> PREFETCHED_CLAUDE_PRICING]}
    ELSE {[ok |-> TRUE, names |-> ns] : ns \in SUBSET ModelNames}
           \cup {[ok |-> FALSE, names |-> {}]}

\* super.getModelPricing(name) on the acquired catalog c
superGetModelPricing(c, name) ==
    IF ~c.ok THEN Failure("PricingFetchError")
    ELSE IF name \in c.names THEN Success(PricingOf(name))
    ELSE Success(NoPricing)

\* the decision after the direct lookup, with the alias step left out
afterDirectNoAlias(name, directResult) ==
    [return |-> TRUE, result |-> directResult, aliasGets |-> 0, alias |-> ""]

\* the decision after the direct lookup, a failure answered as "no pricing"
afterDirectNoFailure(name, directResult) ==
    IF directResult.failure \/ ~directResult.value.null
    THEN [return |-> TRUE,
          result |-> IF directResult.failure THEN Success(NoPricing) ELSE directResult,
          aliasGets |-> 0, alias |-> ""]
    ELSE IF name \in DOMAIN CLAUDE_MODEL_ALIASES
         THEN [return |-> FALSE, result |-> directResult, aliasGets |-> 1,
               alias |-> CLAUDE_MODEL_ALIASES[name]]
         ELSE [return |-> TRUE, result |-> directResult, aliasGets |-> 1,
               alias |-> ""]

\* the decision after the direct lookup, the alias table consulted before the
\* direct result
afterDirectAliasFirst(name, directResult) ==
    IF directResult.failure
    THEN [return |-> TRUE, result |-> directResult, aliasGets |-> 0, alias |-> ""]
    ELSE IF name \in DOMAIN CLAUDE_MODEL_ALIASES
         THEN [return |-> FALSE, result |-> directResult, aliasGets |-> 1,
               alias |-> CLAUDE_MODEL_ALIASES[name]]
         ELSE [return |-> TRUE, result |-> directResult, aliasGets |-> 1,
               alias |-> ""]

\* getModelPricing after `await super.getModelPricing(modelName)`: return
\* directResult, or look the alias up
afterDirect(name, directResult) ==
    IF directResult.failure
    THEN [return |-> TRUE, result |-> directResult, aliasGets |-> 0, alias |-> ""]
    ELSE IF ~directResult.value.null
         THEN [return |-> TRUE, result |-> directResult, aliasGets |-> 0,
               alias |-> ""]
         ELSE IF name \in DOMAIN CLAUDE_MODEL_ALIASES
              THEN [return |-> FALSE, result |-> directResult, aliasGets |-> 1,
                    alias |-> CLAUDE_MODEL_ALIASES[name]]
              ELSE [return |-> TRUE, result |-> directResult, aliasGets |-> 1,
                    alias |-> ""]

PricingInit ==
    /\ env = [set |-> FALSE, value |-> <<>>]
    /\ fs = [p \in FsPaths |-> IF p = HomeLocal THEN "dir" ELSE "none"]
    /\ dbHealth = "ok"
    /\ LoaderStart
    /\ offline \in BOOLEAN
    /\ catalog = [ok |-> TRUE, names |-> {}]
    /\ modelName = ""
    /\ ppc = "idle"
    /\ lookups = <<>>
    /\ aliasGets = 0
    /\ priced = Success(NoPricing)

\* the caller invokes fetcher.getModelPricing(modelName): the name is handed
\* to super.getModelPricing, which starts acquiring the catalog, and the
\* function awaits the result
GetModelPricing ==
    /\ ppc = "idle"
    /\ \E name \in ModelNames :
         /\ modelName' = name
         /\ lookups' = <<name>>
    /\ ppc' = "direct"
    /\ UNCHANGED <<offline, catalog, aliasGets, priced>>
    /\ UNCHANGED loaderVars

\* the awaited direct lookup settles (the catalog is acquired, or the fetch
\* has failed) and the function runs to its return: with directResult, or
\* with the pending lookup of the alias
DirectLookup ==
    /\ ppc = "direct"
    /\ \E c \in Catalogs(offline) :
         LET d == afterDirect(modelName, superGetModelPricing(c, modelName))
         IN  /\ catalog' = c
             /\ aliasGets' = d.aliasGets
             /\ priced' = d.result
             /\ lookups' = IF d.return THEN lookups ELSE Append(lookups, d.alias)
             /\ ppc' = IF d.return THEN "done" ELSE "alias"
    /\ UNCHANGED <<offline, modelName>>
    /\ UNCHANGED loaderVars

\* the lookup of the alias, returned by the function, settles
AliasLookup ==
    /\ ppc = "alias"
    /\ priced' = superGetModelPricing(catalog, lookups[Len(lookups)])
    /\ ppc' = "done"
    /\ UNCHANGED <<offline, catalog, modelName, lookups, aliasGets>>
    /\ UNCHANGED loaderVars

PricingNext ==
    \/ GetModelPricing
    \/ DirectLookup
    \/ AliasLookup

PricingSpec == PricingInit /\ [][PricingNext]_vars

(***************************************************************************)
(* Properties                                                              *)
(***************************************************************************)
Finished == pc \in {"returned", "thrown"}
PastOpen == pc \in {"query", "loop", "returned", "thrown"}

\* a row that passes validation and carries billing information
Billable(row) ==
    /\ row.data.syntax = "strict"
    /\ assistantMessageDataSchema(row.data.doc)
    /\ ~(row.data.doc["tokens.input"].n = 0 /\ row.data.doc["tokens.output"].n = 0)

\* C1: loadOpenCodeMessages never fails because of the content of a row the
\* query returned (a row whose data is not parseable as JSON is skipped), and
\* every valid, billable row is in the returned array.
C1_MalformedRowsAreSkipped ==
    op = "messages" =>
        /\ error # "SyntaxError"
        /\ (pc = "returned" /\ handle = "closed") =>
              \A i \in 1..Len(rows) :
                  Billable(rows[i]) =>
                      \E k \in 1..Len(result) :
                          result[k] = convertMessageToUsageEntry(rows[i],
                                          safeParse(rows[i].data.doc).output)

\* a directory exists at p
DirectoryAt(p) == Entry(p) \in {"dir", "noaccess"}

\* the data directory there is: the one OPENCODE_DATA_DIR names, else the
\* default one
DataDirectory ==
    IF env.set /\ Trim(env.value) # <<>> /\ DirectoryAt(PathResolve(env.value))
    THEN PathResolve(env.value)
    ELSE IF DirectoryAt(DefaultDir) THEN DefaultDir ELSE NoPath

\* the data source is absent: there is no data directory, or it holds no
\* opencode.db file
SourceAbsent ==
    \/ DataDirectory = NoPath
    \/ Entry(DbOf(DataDirectory)) # "file"

\* C2: with the data source absent, loadOpenCodeMessages returns an empty
\* array and loadOpenCodeSessions an empty map, nothing is thrown and no
\* database handle is opened.
C2_AbsentSourceIsEmpty ==
    (SourceAbsent /\ pc # "idle" /\ pc # "openDatabase") =>
        /\ pc = "returned"
        /\ error = "none"
        /\ result = <<>>
        /\ sessionMap = {}
        /\ opened = 0
        /\ handle = "none"

\* OPENCODE_DATA_DIR is unset, blank, or names no existing directory
EnvUnusable ==
    \/ ~env.set
    \/ Trim(env.value) = <<>>
    \/ ~DirectoryAt(PathResolve(env.value))

\* C3 as stated: with OPENCODE_DATA_DIR unset or not an existing directory,
\* loadOpenCodeMessages returns an empty result and raises no error, whatever
\* else is on the file system.
C3_UnusableEnvMeansNoData ==
    (EnvUnusable /\ op = "messages" /\ Finished) =>
        /\ pc = "returned"
        /\ result = <<>>
        /\ error = "none"

\* the call threw e out of the file-system probes, before any open
ThrewFromProbe(e) ==
    /\ pc = "thrown"
    /\ error = e
    /\ dbPath = NoPath
    /\ opened = 0

\* the call returned the empty result, having opened nothing
ReturnedEmpty ==
    /\ pc = "returned"
    /\ result = <<>>
    /\ error = "none"
    /\ dbPath = NoPath
    /\ opened = 0

\* C3 amended: with OPENCODE_DATA_DIR unset, blank or not an existing
\* directory, loadOpenCodeMessages falls back to the default directory.  The
\* probes are made in the order environment path, default directory,
\* opencode.db; the first that fails with an error other than ENOENT has that
\* error thrown to the caller, nothing being opened.  Otherwise the
\* opencode.db file of the default directory is opened when there is one, and
\* the result is empty, without error and with nothing opened, when the
\* default directory does not exist or holds no opencode.db file.
C3_UnusableEnvFallsBackToDefault ==
    (EnvUnusable /\ op = "messages" /\ PastOpen) =>
        IF env.set /\ Trim(env.value) # <<>>
              /\ Stat(PathResolve(env.value)) \in StatErrors
        THEN ThrewFromProbe(Stat(PathResolve(env.value)))
        ELSE IF Stat(DefaultDir) \in StatErrors
             THEN ThrewFromProbe(Stat(DefaultDir))
        ELSE IF Stat(DefaultDir) # "dir"
             THEN ReturnedEmpty
        ELSE IF Stat(DbOf(DefaultDir)) \in StatErrors
             THEN ThrewFromProbe(Stat(DbOf(DefaultDir)))
        ELSE IF Stat(DbOf(DefaultDir)) = "file"
             THEN /\ dbPath = DbOf(DefaultDir)
                  /\ (opened = 1 \/ error = "SqliteOpenError")
        ELSE ReturnedEmpty

C3_Witness ==
    /\ env.set
    /\ EnvUnusable
    /\ op = "messages"
    /\ pc = "returned"
    /\ dbPath = DbOf(DefaultDir)
    /\ Len(result) > 0

\* C4: every storage handle opened during a call is closed exactly once
\* before control returns to the caller, on every exit path, the throw of the
\* PRAGMA statement inside openSqlite included.
C4_HandleClosedOnEveryExit ==
    Finished => /\ handle # "open"
                /\ closes = opened

\* C5: a pushed entry carries the row's cost verbatim when that cost is
\* strictly positive and null when it is zero; costUSD is always null or a
\* strictly positive number.
C5_CostVerbatimOrNull ==
    [][(pc = "loop" /\ Len(entries') = Len(entries) + 1) =>
          LET c == rows[idx].data.doc["cost"]
              e == entries'[Len(entries')]
          IN  /\ c.n > 0 => e.costUSD = Num(c.n)
              /\ c.n = 0 => e.costUSD = Null
              /\ e.costUSD = Null \/ (e.costUSD.t = "num" /\ e.costUSD.n > 0)]_vars

C5_Witness ==
    /\ pc = "returned"
    /\ \E i, j \in 1..Len(result) :
          /\ result[i].costUSD = Null
          /\ result[j].costUSD = Num(5)

\* C6: for a name the base lookup does not resolve and that is a key of
\* CLAUDE_MODEL_ALIASES, getModelPricing returns the base lookup of the
\* aliased name; with the embedded catalog that is a pricing record with a
\* positive input rate, for each of the four aliased names.
C6_AliasResolves ==
    (ppc = "done" /\ catalog.ok /\ modelName \in AliasKeys
        /\ modelName \notin catalog.names) =>
        /\ priced = Success(IF CLAUDE_MODEL_ALIASES[modelName] \in catalog.names
                            THEN PricingOf(CLAUDE_MODEL_ALIASES[modelName])
                            ELSE NoPricing)
        /\ offline => /\ ~priced.value.null
                      /\ priced.value.input_cost_per_token > 0

C6_Witness ==
    /\ ppc = "done"
    /\ offline
    /\ modelName = "anthropic/claude-sonnet-4.5"
    /\ priced.value.model = "claude-sonnet-4-5-20250929"
    /\ priced.value.input_cost_per_token > 0

\* C7: getModelPricing returns a Failure exactly when the catalog lookup
\* fails (that failure, the alias table not consulted), and a success
\* holding null when the catalog was acquired and neither the name nor its
\* alias has pricing.
C7_FailureDistinctFromNotFound ==
    ppc = "done" =>
        /\ priced.failure <=> ~catalog.ok
        /\ priced.failure => /\ priced = Failure("PricingFetchError")
                             /\ aliasGets = 0
                             /\ lookups = <<modelName>>
        /\ (/\ catalog.ok
            /\ modelName \notin catalog.names
            /\ modelName \in AliasKeys =>
                  CLAUDE_MODEL_ALIASES[modelName] \notin catalog.names)
              => priced = Success(NoPricing)

C7_Witness ==
    /\ ppc = "done"
    /\ ~catalog.ok
    /\ modelName \in AliasKeys
    /\ priced.failure

\* C8: every entry returned by loadOpenCodeMessages has its four token
\* fields greater than or equal to zero.
C8_TokensNonNegative ==
    (pc = "returned" /\ op = "messages") =>
        \A i \in 1..Len(result) :
            /\ result[i].usage.inputTokens >= 0
            /\ result[i].usage.outputTokens >= 0
            /\ result[i].usage.cacheReadInputTokens >= 0
            /\ result[i].usage.cacheCreationInputTokens >= 0

\* the entry a billable row stands for
EntryOf(row) ==
    [timestamp |-> [time |-> row.data.doc["time.created"].n],
     sessionID |-> row.session_id,
     usage |-> [inputTokens |-> row.data.doc["tokens.input"].n,
                outputTokens |-> row.data.doc["tokens.output"].n,
                cacheCreationInputTokens |-> row.data.doc["tokens.cache.write"].n,
                cacheReadInputTokens |-> row.data.doc["tokens.cache.read"].n],
     model |-> row.data.doc["modelID"].s,
     costUSD |-> IF row.data.doc["cost"].n > 0 THEN Num(row.data.doc["cost"].n)
                 ELSE Null]

BillableRowsOf(t) == SelectSeq(t, Billable)

\* C9: the returned array holds exactly one entry for each row of the
\* message table that is an assistant turn, passes validation and does not
\* have input = 0 and output = 0, in the order of the rows; user turns and
\* assistant rows with zero input and output produce no entry.
C9_ExactlyTheBillableRows ==
    (pc = "returned" /\ op = "messages" /\ opened = 1) =>
        /\ Len(result) = Len(BillableRowsOf(table))
        /\ \A i \in 1..Len(result) : result[i] = EntryOf(BillableRowsOf(table)[i])

C9_Witness ==
    /\ pc = "returned"
    /\ op = "messages"
    /\ Len(table) = 2
    /\ table[1].id = "msg_idle"
    /\ table[2].id = "msg_free"
    /\ Len(result) = 1
    /\ result[1].sessionID = "ses_2"

\* C10: when the opencode.db file exists but openSqlite throws, both loaders
\* throw that error to the caller and return nothing.
C10_OpenFailurePropagates ==
    (/\ pc # "idle"
     /\ pc # "openDatabase"
     /\ ~getOpenCodePath.threw
     /\ getOpenCodePath.path # NoPath
     /\ Stat(DbOf(getOpenCodePath.path)) = "file"
     /\ dbHealth # "ok") =>
        /\ pc = "thrown"
        /\ error = (IF dbHealth = "unreadable" THEN "SqliteOpenError"
                    ELSE "SqlitePragmaError")
        /\ closes = 0

C10_Witness ==
    /\ pc = "thrown"
    /\ op = "sessions"
    /\ error = "SqliteOpenError"
    /\ dbPath = DbOf(CustomDir)

\* C11: the direct lookup takes precedence over the alias table: when the
\* base lookup of the given name yields a pricing record, that record is
\* returned and the alias is not looked up, also for a key of
\* CLAUDE_MODEL_ALIASES; the alias step is taken at most once per call, with
\* the alias of the given name.
C11_DirectBeforeAlias ==
    ppc = "done" =>
        /\ (catalog.ok /\ modelName \in catalog.names) =>
              /\ priced = Success(PricingOf(modelName))
              /\ lookups = <<modelName>>
              /\ aliasGets = 0
        /\ Len(lookups) <= 2
        /\ aliasGets <= 1
        /\ Len(lookups) = 2 =>
              /\ lookups[1] = modelName
              /\ modelName \in AliasKeys
              /\ lookups[2] = CLAUDE_MODEL_ALIASES[modelName]
              /\ aliasGets = 1

C11_Witness ==
    /\ ppc = "done"
    /\ modelName = "anthropic/claude-opus-4.6"
    /\ catalog.ok
    /\ {"anthropic/claude-opus-4.6", "claude-opus-4-6"} \subseteq catalog.names
    /\ priced.value.model = "anthropic/claude-opus-4.6"
    /\ lookups = <<modelName>>

====
